---- MODULE Spec2Model ----
(***************************************************************************)
(* Model of xexchange-compute-apr.py: XExchangeAPRCalculator and main().   *)
(*                                                                         *)
(* Numbers of the JSON responses and the APRs derived from them are exact  *)
(* rationals [n, d] in lowest terms (d > 0); d = 0 stands for the          *)
(* ZeroDivisionError the division raises on a zero denominator.  A JSON    *)
(* object is a function from its keys to rationals; {} is the function     *)
(* with the empty domain.  Responses stay within the shapes the endpoints  *)
(* document: an object whose fields, when present, are numbers.            *)
(***************************************************************************)
EXTENDS Integers, Sequences, FiniteSets, TLC

VARIABLES
    base_url,       \* self.base_url
    api_endpoints,  \* self.api_endpoints
    pc,             \* position of the running get_total_apr call
    caller,         \* who runs the call: "main" or "api"
    pair_address,   \* argument of the call
    farm_address,   \* argument of the call (None, "" or an address)
    stats,          \* local of calculate_swap_apr
    pool_info,      \* local of calculate_swap_apr
    farm_info,      \* local of calculate_farm_apr
    swap_apr,       \* local of get_total_apr
    farm_apr,       \* local of get_total_apr
    result,         \* the mapping get_total_apr returns
    requests,       \* GET requests issued by the running call, in order
    diag,           \* diagnostic lines printed by _make_request in this call
    stdout,         \* the lines main() printed
    propagated,     \* an exception left get_total_apr
    today,          \* datetime.now(), as a day number
    server,         \* what the remote API answers per <<resource, address>>
    returned,       \* results returned so far per farm argument
    calls           \* number of calls started

vars == <<base_url, api_endpoints, pc, caller, pair_address, farm_address,
          stats, pool_info, farm_info, swap_apr, farm_apr, result, requests,
          diag, stdout, propagated, today, server, returned, calls>>

----------------------------------------------------------------------------
(* Bounds *)

MaxCalls == 2
MaxDay == 1

----------------------------------------------------------------------------
(* Exact rational arithmetic *)

GCD[a \in Nat, b \in Nat] == IF b = 0 THEN a ELSE GCD[b, a % b]

Abs(x) == IF x < 0 THEN -x ELSE x

Norm[n \in Int, d \in Int] ==
    LET g == GCD[Abs(n), Abs(d)]
        s == IF d < 0 THEN -1 ELSE 1
    IN  [n |-> s * (n \div g), d |-> s * (d \div g)]

(* the rationals, with d = 0 for ZeroDivisionError *)
Rat == [n : Int, d : Nat]

R(n, d) == Norm[n, d]

Zero == [n |-> 0, d |-> 1]

ZeroDivisionError == [n |-> 1, d |-> 0]

IsError(x) == x.d = 0

RMul[a \in Rat, b \in Rat] ==
    IF IsError(a) \/ IsError(b) THEN ZeroDivisionError
    ELSE LET x == Norm[a.n, b.d]
             y == Norm[b.n, a.d]
         IN  Norm[x.n * y.n, x.d * y.d]

RDiv[a \in Rat, b \in Rat] ==
    IF IsError(a) \/ IsError(b) \/ b.n = 0 THEN ZeroDivisionError
    ELSE RMul[a, Norm[b.d, b.n]]

RAdd[a \in Rat, b \in Rat] ==
    IF IsError(a) \/ IsError(b) THEN ZeroDivisionError
    ELSE Norm[a.n * b.d + b.n * a.d, a.d * b.d]

(* f"{x:.2f}": x rounded to hundredths (ties to even), as a decimal string *)
Format2(x) ==
    LET q == (x.n * 100) \div x.d
        r == (x.n * 100) % x.d
        c == IF 2 * r > x.d \/ (2 * r = x.d /\ q % 2 = 1) THEN q + 1 ELSE q
        f == c % 100
    IN  ToString(c \div 100) \o "." \o
        (IF f < 10 THEN "0" ELSE "") \o ToString(f)

----------------------------------------------------------------------------
(* Values of the program and of its environment *)

None == "None"

MainAddress == "erd1qqqqqqqqqqqqqpgqd77fnev2xuqg6q2qpxwnzq2c2h901vk5r4ss7xx68v"

PairAddresses == {MainAddress}

FarmArguments == {None, "", MainAddress}

Resources == {"pairs", "farm", "stats"}

Empty == [k \in {} |-> Zero]

(* JSON objects whose keys are a subset of the fields and whose values are
   drawn from the field's set *)
Objects(fields) ==
    UNION { { f \in [K -> UNION { fields[k] : k \in DOMAIN fields }] :
                \A k \in K : f[k] \in fields[k] } :
            K \in SUBSET DOMAIN fields }

StatsFields ==
    [volume_24h |-> {Zero, R(500000, 1)}, other |-> {R(1, 1)}]

PairsFields ==
    [fee_percentage |-> {R(3, 1000), R(1, 100)},
     tvl_usd |-> {Zero, R(1000000, 1)},
     other |-> {R(1, 1)}]

FarmFields ==
    [reward_token_price |-> {Zero, R(2, 1)},
     rewards_per_day |-> {Zero, R(1000, 1)},
     tvl_usd |-> {Zero, R(200000, 1)},
     other |-> {R(1, 1)}]

Fields(resource) ==
    CASE resource = "stats" -> StatsFields
      [] resource = "pairs" -> PairsFields
      [] resource = "farm" -> FarmFields

(* What requests.get / raise_for_status / response.json() can raise *)
Failures == {"ConnectionError", "HTTPError", "JSONDecodeError"}

Outcomes ==
    [resource \in Resources |->
        { [kind |-> "ok", body |-> b] : b \in Objects(Fields(resource)) } \cup
        { [kind |-> k, body |-> Empty] : k \in Failures }]

Unknown == [kind |-> "unknown", body |-> Empty]

Keys == Resources \X (PairAddresses \cup FarmArguments)

(* The answers the remote API can give to a GET for key *)
Answers(key) ==
    IF server[key] = Unknown THEN Outcomes[key[1]] ELSE {server[key]}

----------------------------------------------------------------------------
(* XExchangeAPRCalculator *)

(* variant: the handler catches requests.exceptions.ConnectionError only *)
IsRequestException_ConnectionOnly(kind) == kind = "ConnectionError"

(* classes of requests.exceptions that derive from RequestException *)
IsRequestException(kind) ==
    kind \in {"ConnectionError", "HTTPError", "JSONDecodeError"}

(* variant: no try/except around the GET *)
_make_request_uncaught(endpoint, params, outcome) ==
    [ret |-> outcome.body, diag |-> << >>, raised |-> outcome.kind # "ok",
     exchange |-> [url |-> base_url \o endpoint, params |-> params,
                   response |-> outcome.kind]]

(* _make_request: the GET of endpoint with params answered by outcome *)
_make_request(endpoint, params, outcome) ==
    LET exchange == [url |-> base_url \o endpoint, params |-> params,
                     response |-> outcome.kind]
    IN  IF outcome.kind = "ok"
        THEN [ret |-> outcome.body, diag |-> << >>, raised |-> FALSE,
              exchange |-> exchange]
        ELSE IF IsRequestException(outcome.kind)
        THEN [ret |-> Empty,
              diag |-> <<"Error making request: " \o outcome.kind>>,
              raised |-> FALSE, exchange |-> exchange]
        ELSE [ret |-> Empty, diag |-> << >>, raised |-> TRUE,
              exchange |-> exchange]

NoDate == 0 - 1000000

Params(pair, farm, from, to) ==
    [pair |-> pair, farm |-> farm, from |-> from, to |-> to]

get_pool_info(pair, outcome) ==
    _make_request(api_endpoints["pairs"],
                  Params(pair, None, NoDate, NoDate), outcome)

get_farm_info(farm, outcome) ==
    _make_request(api_endpoints["farm"],
                  Params(None, farm, NoDate, NoDate), outcome)

Days == 7

(* variant: the stats accessor looks up the "pairs" endpoint *)
get_pool_stats_pairs_endpoint(pair, outcome) ==
    _make_request(api_endpoints["pairs"],
                  Params(pair, None, today - Days, today), outcome)

get_pool_stats(pair, outcome) ==
    LET end_date == today
        start_date == end_date - Days
    IN  _make_request(api_endpoints["stats"],
                      Params(pair, None, start_date, end_date), outcome)

(* dict.get(key, default) *)
Get(m, key, default) == IF key \in DOMAIN m THEN m[key] ELSE default

(* variant: no "if tvl == 0" guard before the division *)
swap_apr_of_unguarded(st, pool) ==
    IF DOMAIN st = {} \/ DOMAIN pool = {} THEN Zero
    ELSE RMul[RDiv[RMul[RMul[Get(st, "volume_24h", Zero),
                             Get(pool, "fee_percentage", R(3, 1000))],
                        R(365, 1)],
                   Get(pool, "tvl_usd", Zero)],
              R(100, 1)]

(* variant: the ratio is returned as a fraction, not multiplied by 100 *)
swap_apr_of_fraction(st, pool) ==
    IF DOMAIN st = {} \/ DOMAIN pool = {} THEN Zero
    ELSE IF Get(pool, "tvl_usd", Zero) = Zero THEN Zero
    ELSE RDiv[RMul[RMul[Get(st, "volume_24h", Zero),
                        Get(pool, "fee_percentage", R(3, 1000))],
                   R(365, 1)],
              Get(pool, "tvl_usd", Zero)]

(* calculate_swap_apr after its two fetches *)
swap_apr_of(st, pool) ==
    IF DOMAIN st = {} \/ DOMAIN pool = {} THEN Zero
    ELSE LET daily_volume == Get(st, "volume_24h", Zero)
             fee_percentage == Get(pool, "fee_percentage", R(3, 1000))
             tvl == Get(pool, "tvl_usd", Zero)
         IN  IF tvl = Zero THEN Zero
             ELSE LET daily_fees == RMul[daily_volume, fee_percentage]
                      annual_fees == RMul[daily_fees, R(365, 1)]
                  IN  RMul[RDiv[annual_fees, tvl], R(100, 1)]

(* variant: the daily rewards are not annualized *)
farm_apr_of_daily(farm) ==
    IF DOMAIN farm = {} THEN Zero
    ELSE IF Get(farm, "tvl_usd", Zero) = Zero THEN Zero
    ELSE RMul[RDiv[RMul[Get(farm, "rewards_per_day", Zero),
                        Get(farm, "reward_token_price", Zero)],
                   Get(farm, "tvl_usd", Zero)],
              R(100, 1)]

(* calculate_farm_apr after its fetch *)
farm_apr_of(farm) ==
    IF DOMAIN farm = {} THEN Zero
    ELSE LET reward_token_price == Get(farm, "reward_token_price", Zero)
             rewards_per_day == Get(farm, "rewards_per_day", Zero)
             tvl == Get(farm, "tvl_usd", Zero)
         IN  IF tvl = Zero THEN Zero
             ELSE LET daily_rewards_usd ==
                          RMul[rewards_per_day, reward_token_price]
                      annual_rewards_usd ==
                          RMul[daily_rewards_usd, R(365, 1)]
                  IN  RMul[RDiv[annual_rewards_usd, tvl], R(100, 1)]

(* variant: calculate_farm_apr is called whatever farm_address is *)
farm_requested_always(farm) == TRUE

(* "if farm_address": None and "" are falsy *)
farm_requested(farm) == farm # None /\ farm # ""

(* variant: total_apr repeats swap_apr *)
total_apr_of_swap_only(swap, farm) ==
    [swap_apr |-> swap, farm_apr |-> farm, total_apr |-> swap]

(* variant: the total is accumulated on the calculator across calls *)
total_apr_of_accumulated(swap, farm) ==
    LET before == IF returned[farm_address] = {} THEN Zero
                  ELSE (CHOOSE r \in returned[farm_address] : TRUE).total_apr
    IN  [swap_apr |-> swap, farm_apr |-> farm,
         total_apr |-> RAdd[RAdd[swap, farm], before]]

(* variant: a zero part zeroes the whole result *)
total_apr_of_all_or_nothing(swap, farm) ==
    IF swap = Zero \/ farm = Zero
    THEN [swap_apr |-> Zero, farm_apr |-> Zero, total_apr |-> Zero]
    ELSE [swap_apr |-> swap, farm_apr |-> farm, total_apr |-> RAdd[swap, farm]]

(* the mapping get_total_apr returns *)
total_apr_of(swap, farm) ==
    [swap_apr |-> swap, farm_apr |-> farm, total_apr |-> RAdd[swap, farm]]

NoResult == [swap_apr |-> Zero, farm_apr |-> Zero, total_apr |-> Zero]

(* the three lines main() prints *)
main_lines(aprs) ==
    <<"Swap APR: " \o Format2(aprs.swap_apr) \o "%",
      "Farm APR: " \o Format2(aprs.farm_apr) \o "%",
      "Total APR: " \o Format2(aprs.total_apr) \o "%">>

----------------------------------------------------------------------------
(* State machine *)

Init ==
    /\ base_url = "https://api.xexchange.com"
    /\ api_endpoints = [pairs |-> "/pairs", farm |-> "/farm", stats |-> "/stats"]
    /\ pc = "idle"
    /\ caller = "api"
    /\ pair_address = MainAddress
    /\ farm_address = None
    /\ stats = Empty
    /\ pool_info = Empty
    /\ farm_info = Empty
    /\ swap_apr = Zero
    /\ farm_apr = Zero
    /\ result = NoResult
    /\ requests = << >>
    /\ diag = << >>
    /\ stdout = << >>
    /\ propagated = FALSE
    /\ today = 0
    /\ server = [k \in Keys |-> Unknown]
    /\ returned = [f \in FarmArguments |-> {}]
    /\ calls = 0

Enter(who, pair, farm) ==
    /\ pc = "idle"
    /\ calls < MaxCalls
    /\ calls' = calls + 1
    /\ caller' = who
    /\ pair_address' = pair
    /\ farm_address' = farm
    /\ pc' = "get_pool_stats"
    /\ stats' = Empty
    /\ pool_info' = Empty
    /\ farm_info' = Empty
    /\ swap_apr' = Zero
    /\ farm_apr' = Zero
    /\ result' = NoResult
    /\ requests' = << >>
    /\ diag' = << >>
    /\ stdout' = << >>
    /\ UNCHANGED <<base_url, api_endpoints, propagated, today, server,
                   returned>>

(* a caller invokes get_total_apr(pair, farm) *)
Call == \E pair \in PairAddresses, farm \in FarmArguments :
            Enter("api", pair, farm)

(* main() constructs the calculator and invokes get_total_apr *)
Main == Enter("main", MainAddress, MainAddress)

(* calculate_swap_apr: stats = self.get_pool_stats(pair_address) *)
GetPoolStats ==
    /\ pc = "get_pool_stats"
    /\ \E o \in Answers(<<"stats", pair_address>>) :
         LET r == get_pool_stats(pair_address, o)
         IN  /\ server' = [server EXCEPT ![<<"stats", pair_address>>] = o]
             /\ requests' = Append(requests, r.exchange)
             /\ diag' = diag \o r.diag
             /\ stats' = r.ret
             /\ propagated' = r.raised
             /\ pc' = IF r.raised THEN "raised" ELSE "get_pool_info"
    /\ UNCHANGED <<base_url, api_endpoints, caller, pair_address,
                   farm_address, pool_info, farm_info, swap_apr, farm_apr,
                   result, stdout, today, returned, calls>>

(* calculate_swap_apr: pool_info = self.get_pool_info(pair_address) and the
   rest of the function *)
GetPoolInfo ==
    /\ pc = "get_pool_info"
    /\ \E o \in Answers(<<"pairs", pair_address>>) :
         LET r == get_pool_info(pair_address, o)
             apr == swap_apr_of(stats, r.ret)
             failed == r.raised \/ IsError(apr)
         IN  /\ server' = [server EXCEPT ![<<"pairs", pair_address>>] = o]
             /\ requests' = Append(requests, r.exchange)
             /\ diag' = diag \o r.diag
             /\ pool_info' = r.ret
             /\ swap_apr' = IF failed THEN Zero ELSE apr
             /\ propagated' = failed
             /\ pc' = IF failed THEN "raised" ELSE "farm"
    /\ UNCHANGED <<base_url, api_endpoints, caller, pair_address,
                   farm_address, stats, farm_info, farm_apr, result, stdout,
                   today, returned, calls>>

(* get_total_apr: self.calculate_farm_apr(farm_address), then the return *)
GetFarmInfo ==
    /\ pc = "farm"
    /\ farm_requested(farm_address)
    /\ \E o \in Answers(<<"farm", farm_address>>) :
         LET r == get_farm_info(farm_address, o)
             apr == farm_apr_of(r.ret)
             failed == r.raised \/ IsError(apr)
         IN  /\ server' = [server EXCEPT ![<<"farm", farm_address>>] = o]
             /\ requests' = Append(requests, r.exchange)
             /\ diag' = diag \o r.diag
             /\ farm_info' = r.ret
             /\ farm_apr' = IF failed THEN Zero ELSE apr
             /\ result' = IF failed THEN NoResult
                          ELSE total_apr_of(swap_apr, apr)
             /\ propagated' = failed
             /\ pc' = IF failed THEN "raised" ELSE "returned"
    /\ UNCHANGED <<base_url, api_endpoints, caller, pair_address,
                   farm_address, stats, pool_info, swap_apr, stdout, today,
                   returned, calls>>

(* get_total_apr: farm_apr = 0.0 without a farm address, then the return *)
NoFarm ==
    /\ pc = "farm"
    /\ ~farm_requested(farm_address)
    /\ farm_apr' = Zero
    /\ result' = total_apr_of(swap_apr, Zero)
    /\ pc' = "returned"
    /\ UNCHANGED <<base_url, api_endpoints, caller, pair_address,
                   farm_address, stats, pool_info, farm_info, swap_apr,
                   requests, diag, stdout, propagated, today, server,
                   returned, calls>>

(* the caller receives the result *)
Return ==
    /\ pc = "returned"
    /\ caller = "api"
    /\ returned' = [returned EXCEPT ![farm_address] = @ \cup {result}]
    /\ pc' = "idle"
    /\ UNCHANGED <<base_url, api_endpoints, caller, pair_address,
                   farm_address, stats, pool_info, farm_info, swap_apr,
                   farm_apr, result, requests, diag, stdout, propagated,
                   today, server, calls>>

(* main() prints the three lines and ends *)
Report ==
    /\ pc = "returned"
    /\ caller = "main"
    /\ stdout' = main_lines(result)
    /\ returned' = [returned EXCEPT ![farm_address] = @ \cup {result}]
    /\ pc' = "idle"
    /\ UNCHANGED <<base_url, api_endpoints, caller, pair_address,
                   farm_address, stats, pool_info, farm_info, swap_apr,
                   farm_apr, result, requests, diag, propagated, today,
                   server, calls>>

(* the date datetime.now() reads moves on *)
Tick ==
    /\ today < MaxDay
    /\ today' = today + 1
    /\ UNCHANGED <<base_url, api_endpoints, pc, caller, pair_address,
                   farm_address, stats, pool_info, farm_info, swap_apr,
                   farm_apr, result, requests, diag, stdout, propagated,
                   server, returned, calls>>

(* the data behind the remote API changes between two calls *)
Drift ==
    /\ pc = "idle"
    /\ server # [k \in Keys |-> Unknown]
    /\ server' = [k \in Keys |-> Unknown]
    /\ returned' = [f \in FarmArguments |-> {}]
    /\ UNCHANGED <<base_url, api_endpoints, pc, caller, pair_address,
                   farm_address, stats, pool_info, farm_info, swap_apr,
                   farm_apr, result, requests, diag, stdout, propagated,
                   today, calls>>

NextFixed ==
    \/ Call
    \/ Main
    \/ GetPoolStats
    \/ GetPoolInfo
    \/ GetFarmInfo
    \/ NoFarm
    \/ Return
    \/ Report
    \/ Tick

Next == NextFixed \/ Drift

Spec == Init /\ [][Next]_vars

(* the remote API answers the same to the same GET throughout *)
SpecFixed == Init /\ [][NextFixed]_vars

(* a run of main() alone, whose blocking calls each come back *)
NextMain ==
    \/ Main
    \/ GetPoolStats
    \/ GetPoolInfo
    \/ GetFarmInfo
    \/ Report
    \/ Tick

SpecMain ==
    /\ Init
    /\ [][NextMain]_vars
    /\ WF_vars(GetPoolStats \/ GetPoolInfo \/ GetFarmInfo \/ Report)

----------------------------------------------------------------------------
(* Properties *)

StatsUrl == "https://api.xexchange.com/stats"
PairsUrl == "https://api.xexchange.com/pairs"
FarmUrl == "https://api.xexchange.com/farm"

Failed(i) == Len(requests) >= i /\ requests[i].response # "ok"
Succeeded(i) == Len(requests) >= i /\ requests[i].response = "ok"

\* C1: whatever the GET of _make_request does (transport error, non-2xx
\* status, malformed JSON body) and whichever resource it is for, no error
\* reaches the caller: the call yields the empty mapping and one diagnostic
\* line per failed request.
C1_MakeRequestFailsSoft ==
    /\ ~propagated
    /\ pc # "raised"
    /\ LET failed == SelectSeq(requests, LAMBDA e : e.response # "ok")
       IN  diag = [i \in 1..Len(failed) |->
                     "Error making request: " \o failed[i].response]
    /\ Failed(1) => stats = Empty
    /\ Failed(2) => pool_info = Empty
    /\ Failed(3) => farm_info = Empty

C1_Witness ==
    /\ pc = "returned"
    /\ Len(requests) = 3
    /\ requests[1].response = "JSONDecodeError"
    /\ requests[2].response = "HTTPError"
    /\ requests[3].response = "ConnectionError"
    /\ Len(diag) = 3

\* C2: when the TVL of the pool response (resp. of the farm response) is 0
\* or absent, the swap APR (resp. farm APR) is exactly 0.0 whatever the other
\* fields are, and no arithmetic failure occurs.
C2_ZeroTvlZeroApr ==
    /\ (Len(requests) >= 2 /\ Get(pool_info, "tvl_usd", Zero) = Zero)
          => (swap_apr = Zero /\ ~propagated)
    /\ (Len(requests) >= 3 /\ Get(farm_info, "tvl_usd", Zero) = Zero)
          => (farm_apr = Zero /\ ~propagated)

C2_Witness ==
    /\ pc = "returned"
    /\ Len(requests) = 3
    /\ Get(stats, "volume_24h", Zero) # Zero
    /\ "tvl_usd" \in DOMAIN pool_info
    /\ pool_info["tvl_usd"] = Zero
    /\ DOMAIN farm_info = {"reward_token_price", "rewards_per_day"}
    /\ farm_info["reward_token_price"] # Zero
    /\ farm_info["rewards_per_day"] # Zero
    /\ swap_apr = Zero
    /\ farm_apr = Zero

\* C3: for non-empty stats and pool responses with pool TVL # 0,
\* calculate_swap_apr yields (volume_24h * fee_percentage * 365 / tvl_usd)
\* * 100 with an absent volume_24h taken as 0 and an absent fee_percentage
\* as 0.003; fee 0.003, TVL 1,000,000 and volume 500,000 give 54.75.
C3_SwapAprFormula ==
    LET vol == Get(stats, "volume_24h", Zero)
        fee == Get(pool_info, "fee_percentage", [n |-> 3, d |-> 1000])
        tvl == Get(pool_info, "tvl_usd", Zero)
    IN  (Len(requests) >= 2 /\ DOMAIN stats # {} /\ DOMAIN pool_info # {}
            /\ tvl # Zero)
          => /\ ~propagated
             /\ RMul[swap_apr, tvl] = RMul[RMul[vol, fee], [n |-> 36500, d |-> 1]]
             /\ (vol = [n |-> 500000, d |-> 1] /\ fee = [n |-> 3, d |-> 1000]
                   /\ tvl = [n |-> 1000000, d |-> 1])
                  => swap_apr = [n |-> 219, d |-> 4]

C3_Witness ==
    /\ pc = "farm"
    /\ DOMAIN stats = {"volume_24h"}
    /\ stats["volume_24h"] = [n |-> 500000, d |-> 1]
    /\ DOMAIN pool_info = {"tvl_usd", "other"}
    /\ pool_info["tvl_usd"] = [n |-> 1000000, d |-> 1]
    /\ swap_apr = [n |-> 219, d |-> 4]

\* C4: for a non-empty farm response with farm TVL # 0, calculate_farm_apr
\* yields (rewards_per_day * reward_token_price * 365 / tvl_usd) * 100 with
\* an absent rewards_per_day or reward_token_price taken as 0; price 2.0,
\* 1,000 rewards per day and TVL 200,000 give 365.0.
C4_FarmAprFormula ==
    LET price == Get(farm_info, "reward_token_price", Zero)
        rpd == Get(farm_info, "rewards_per_day", Zero)
        tvl == Get(farm_info, "tvl_usd", Zero)
    IN  (Len(requests) >= 3 /\ DOMAIN farm_info # {} /\ tvl # Zero)
          => /\ ~propagated
             /\ RMul[farm_apr, tvl] = RMul[RMul[rpd, price], [n |-> 36500, d |-> 1]]
             /\ (price = [n |-> 2, d |-> 1] /\ rpd = [n |-> 1000, d |-> 1]
                   /\ tvl = [n |-> 200000, d |-> 1])
                  => farm_apr = [n |-> 365, d |-> 1]
             /\ ("rewards_per_day" \notin DOMAIN farm_info
                   \/ "reward_token_price" \notin DOMAIN farm_info)
                  => farm_apr = Zero

C4_Witness ==
    /\ pc = "returned"
    /\ DOMAIN farm_info = {"reward_token_price", "rewards_per_day", "tvl_usd"}
    /\ farm_info["reward_token_price"] = [n |-> 2, d |-> 1]
    /\ farm_info["rewards_per_day"] = [n |-> 1000, d |-> 1]
    /\ farm_info["tvl_usd"] = [n |-> 200000, d |-> 1]
    /\ farm_apr = [n |-> 365, d |-> 1]

\* C5: in every result of get_total_apr, total_apr is swap_apr + farm_apr of
\* that same result, which are the values the call computed from its own
\* fetches (at most one per resource).
C5_TotalIsSum ==
    /\ pc = "returned" =>
          /\ result.total_apr = RAdd[result.swap_apr, result.farm_apr]
          /\ result.swap_apr = swap_apr
          /\ result.farm_apr = farm_apr
          /\ Len(requests) <= 3
    /\ \A f \in FarmArguments : \A r \in returned[f] :
          LET s == r.swap_apr
              t == r.farm_apr
          IN  r.total_apr.n * (s.d * t.d) = (s.n * t.d + t.n * s.d) * r.total_apr.d

C5_Witness ==
    /\ pc = "returned"
    /\ result.swap_apr = [n |-> 219, d |-> 4]
    /\ result.farm_apr = [n |-> 365, d |-> 1]
    /\ result.total_apr = [n |-> 1679, d |-> 4]

\* C6: a get_total_apr call without a farm address never issues a request to
\* the farm endpoint and returns farm_apr = 0.0, whatever the stats and
\* pairs fetches did.
C6_NoFarmAddressNoFarmRequest ==
    (farm_address = None /\ pc # "idle") =>
        /\ \A i \in 1..Len(requests) : requests[i].url # FarmUrl
        /\ Len(requests) <= 2
        /\ pc = "returned" => (result.farm_apr = Zero /\ farm_apr = Zero)

C6_Witness ==
    /\ farm_address = None
    /\ pc = "returned"
    /\ Len(requests) = 2
    /\ Failed(1)
    /\ Succeeded(2)
    /\ result.farm_apr = Zero

C7_Safe ==
    caller = "main" =>
        /\ ~propagated
        /\ pc # "raised"
        /\ (pc = "idle" /\ calls > 0) =>
              /\ Len(stdout) = 3
              /\ Len(requests) = 3
              /\ (Failed(1) \/ Failed(2)) => stdout[1] = "Swap APR: 0.00%"
              /\ Failed(3) => stdout[2] = "Farm APR: 0.00%"
              /\ (Failed(1) /\ Failed(2) /\ Failed(3)) =>
                    stdout = <<"Swap APR: 0.00%", "Farm APR: 0.00%",
                               "Total APR: 0.00%">>
              /\ (stats = Empty \/ pool_info = Empty) =>
                    stdout[1] = "Swap APR: 0.00%"
              /\ farm_info = Empty => stdout[2] = "Farm APR: 0.00%"

\* C7: whatever combination of the three fetches succeeds or fails, a run of
\* main() ends without an exception having prints its three APR lines; an
\* APR one of whose fetches came back empty or failed is printed as 0.00,
\* and all three are when every fetch failed.
C7_MainAlwaysReports ==
    /\ []C7_Safe
    /\ (caller = "main" /\ pc = "get_pool_stats")
          ~> (caller = "main" /\ pc = "idle" /\ Len(stdout) = 3)

C7_Witness ==
    /\ caller = "main"
    /\ pc = "idle"
    /\ Failed(1)
    /\ Succeeded(2)
    /\ Failed(3)
    /\ stdout = <<"Swap APR: 0.00%", "Farm APR: 0.00%", "Total APR: 0.00%">>

\* C8: while the remote API answers the same to the same request, all
\* get_total_apr calls with the same addresses return the same result, and
\* no step changes base_url or api_endpoints.
C8_Idempotent ==
    /\ [](\A f \in FarmArguments : Cardinality(returned[f]) <= 1)
    /\ [][base_url' = base_url /\ api_endpoints' = api_endpoints]_vars

C8_Witness ==
    /\ calls = 2
    /\ pc = "idle"
    /\ farm_address = MainAddress
    /\ returned[MainAddress] = {result}
    /\ result.swap_apr # Zero
    /\ result.farm_apr # Zero
    /\ requests[1].params.to = 1

\* C9: a get_total_apr call with a farm address issues its GETs one after
\* the other in the order stats, pairs, farm, each exactly once whatever the
\* earlier ones answered, and the swap APR is computed only once stats and
\* pairs have both been fetched.
C9_RequestOrder ==
    LET urls == [i \in 1..Len(requests) |-> requests[i].url]
        order == <<StatsUrl, PairsUrl, FarmUrl>>
    IN  (farm_address = MainAddress /\ pc # "idle") =>
          /\ Len(urls) <= 3
          /\ urls = SubSeq(order, 1, Len(urls))
          /\ pc = "get_pool_stats" => Len(urls) = 0
          /\ pc = "get_pool_info" => Len(urls) = 1
          /\ pc = "farm" => Len(urls) = 2
          /\ pc = "returned" => Len(urls) = 3
          /\ Len(urls) < 2 => swap_apr = Zero

C9_Witness ==
    /\ farm_address = MainAddress
    /\ pc = "returned"
    /\ Len(requests) = 3
    /\ Failed(1)
    /\ Failed(2)
    /\ Succeeded(3)

\* C10: in one get_total_apr call, when the stats or pairs fetch fails and
\* the farm fetch succeeds, farm_apr is the formula value of the farm
\* response and total_apr = farm_apr; when only the farm fetch fails,
\* swap_apr is the formula value and total_apr = swap_apr.
C10_PartialFailureIndependence ==
    pc = "returned" =>
      /\ ((Failed(1) \/ Failed(2)) /\ Succeeded(3)) =>
            LET price == Get(farm_info, "reward_token_price", Zero)
                rpd == Get(farm_info, "rewards_per_day", Zero)
                tvl == Get(farm_info, "tvl_usd", Zero)
            IN  /\ tvl # Zero =>
                      RMul[result.farm_apr, tvl] =
                         RMul[RMul[rpd, price], [n |-> 36500, d |-> 1]]
                /\ tvl = Zero => result.farm_apr = Zero
                /\ result.total_apr = result.farm_apr
      /\ (Succeeded(1) /\ Succeeded(2) /\ Failed(3)) =>
            LET vol == Get(stats, "volume_24h", Zero)
                fee == Get(pool_info, "fee_percentage", [n |-> 3, d |-> 1000])
                tvl == Get(pool_info, "tvl_usd", Zero)
            IN  /\ (DOMAIN stats # {} /\ DOMAIN pool_info # {} /\ tvl # Zero) =>
                      RMul[result.swap_apr, tvl] =
                         RMul[RMul[vol, fee], [n |-> 36500, d |-> 1]]
                /\ (DOMAIN stats = {} \/ DOMAIN pool_info = {} \/ tvl = Zero)
                      => result.swap_apr = Zero
                /\ result.total_apr = result.swap_apr

C10_Witness ==
    /\ pc = "returned"
    /\ Failed(1)
    /\ Succeeded(2)
    /\ Succeeded(3)
    /\ result.farm_apr = [n |-> 365, d |-> 1]
    /\ result.total_apr = [n |-> 365, d |-> 1]

C10_WitnessFarmFails ==
    /\ pc = "returned"
    /\ Succeeded(1)
    /\ Succeeded(2)
    /\ Failed(3)
    /\ result.swap_apr = [n |-> 219, d |-> 4]
    /\ result.total_apr = [n |-> 219, d |-> 4]

====
